---- MODULE Spec2Model ----
(***************************************************************************)
(* State-machine model of fastapi_cloud_cli/utils/api.py (the attempt      *)
(* context manager, the attempts decorator, APIClient.stream_build_logs,   *)
(* APIClient.stream_app_logs and APIClient.poll_deployment_status) and of  *)
(* the deploy command of fastapi_cloud_cli/commands/deploy.py, and of the   *)
(* accessories handlers of src/main.py.                                    *)
(*                                                                         *)
(* Time is time.monotonic(), counted in ticks of half a second (the        *)
(* shortest sleep of the code is time.sleep(0.5)).                         *)
(***************************************************************************)
EXTENDS Integers, Sequences, FiniteSets, TLC

VARIABLES
    now,            \* time.monotonic(), in ticks
    \* ---- attempt(attempt_number), called on its own
    a_pc,           \* "idle" | "body" | "exited"
    a_number,       \* the attempt_number argument
    a_exc,          \* the exception the with-body raised (NoExc when none)
    a_slept,        \* ticks slept by _backoff in this call
    a_raised,       \* the exception class attempt let out ("none" when suppressed)
    a_status_code,  \* status_code of the StreamLogError attempt raised (0: none)
    \* ---- poll_deployment_status
    poll_pc,        \* "idle" | "loop" | "request" | "returned" | "raised"
    poll_start,     \* start
    error_count,    \* error_count
    status,         \* status, the last DeploymentStatus fetched ("none" before)
    poll_result,    \* the returned status or the raised exception class
    poll_status_code, \* status_code of the StreamLogError the call raised (0: none)
    poll_requests,  \* number of GET requests issued
    poll_exc,       \* history: what the last request's with-body raised (NoExc: a status was fetched)
    fail_run,       \* history: length of the current run of transient failures
    poll_backoff,   \* history: <<error_count at the failure, ticks slept>> of the last failure in the run
    \* ---- stream_build_logs under @attempts
    s_pc,           \* "idle" | "attempt" | "connect" | "reading" | "returned" | "raised"
    wrapper_start,  \* start of attempts.wrapper
    attempt_number, \* attempt_number of attempts.wrapper
    last_id,        \* last_id of stream_build_logs (NullId: None)
    line,           \* line, the last line iter_lines gave (NoLine before)
    s_result,       \* the exception class the call raised ("none" when it did not)
    yielded,        \* history: the records the generator yielded, in order
    received,       \* history: the message records parsed, in arrival order
    opened,         \* history: number of self.stream(...) requests issued
    all_refused,    \* history: every request so far raised NetworkError before an answer came
    conn_cause,     \* history: why the last request was issued: "call" | "retry" | "timeout"
    req_last_id,    \* history: the last_id parameter of the last request (NullId: none)
    req_seen,       \* history: the last non-null id seen in this call when that request was issued
    req_mark,       \* history: how many records had been yielded when that request was issued
    seen_id,        \* history: the last non-null id seen on any record in this call
    skipped,        \* history: a line of the current connection was skipped as empty or malformed
    s_exc,          \* history: the exception the last attempt ended with (NoExc: none, or the next one began)
    s_status_code,  \* status_code of the StreamLogError the call raised (0: none)
    s_backoff,      \* history: ticks slept by _backoff when the last attempt ended
    s_pause,        \* history: ticks slept by time.sleep(0.5) since the last connection ended
    closed,         \* history: the last attempt ended by its connection closing without a terminal record
    log,            \* server: the build log, records with ids 1, 2, ...
    srv_pos,        \* server: how many records of log the connection has passed
    noise,          \* server: lines without an id sent so far
    \* ---- stream_app_logs under @attempts
    app_pc,         \* "idle" | "attempt" | "connect" | "reading" | "returned" | "raised"
    app_start,      \* start of attempts.wrapper
    app_attempt,    \* attempt_number of attempts.wrapper
    follow,         \* the follow argument
    app_line,       \* line, the last line iter_lines gave (NoAppLine before)
    app_result,     \* the exception class the call raised ("none" when it did not)
    app_message,    \* the message of the StreamLogError an error record raised ("none": none)
    app_status_code,\* status_code of the StreamLogError the call raised (0: None)
    app_yielded,    \* history: the entries yielded, each named by the number of its line
    app_opened,     \* history: number of self.stream(...) requests issued
    app_exc,        \* history: the exception the last attempt ended with (NoExc: none, or the next one began)
    app_backoff,    \* history: ticks slept by _backoff when the last attempt ended
    app_lines,      \* server: number of lines sent on the open connection
    \* ---- deploy
    d_pc,           \* "idle" | "check_app" | "archive" | "create" | "upload" | "transfer" |
                    \* "upload_complete" | "uploaded" | "streaming" | "polling" | "done"
    skip_wait,      \* the skip_wait argument
    provided_app_id,\* whether --app-id was given
    requests,       \* history: the remote operations issued, in order, each with its success
    d_exit,         \* how the run ended: "none" (running) | "ok" | "Exit1" | an exception class
    d_message,      \* the last message shown to the user ("none": none)
    build_complete, \* build_complete of _wait_for_deployment
    interrupted,    \* history: where KeyboardInterrupt arrived ("none": it did not)
    d_log,          \* log.type of the last record the stream yielded ("none" before)
    streamed,       \* history: number of records the stream yielded
    d_stream_error, \* history: the exception stream_build_logs raised ("none": none)
    d_poll_error,   \* history: the exception poll_deployment_status raised ("none": none)
    final_status,   \* final_status of _verify_deployment ("none" before)
    app_answer,     \* history: what the app lookup ended with
    archived,       \* history: how archive ended: "none" (not called) | "written" | "failed"
    upload_error,   \* history: what the last request of the block "Creating deployment" raised (NoExc: nothing)
    \* ---- the accessories application (src/main.py)
    accessories_example_db, \* accessories_example_db, a list of records
    acc_response    \* what the last handler returned ("none" before)

attemptVars == <<a_pc, a_number, a_exc, a_slept, a_raised, a_status_code>>
pollVars == <<poll_pc, poll_start, error_count, status, poll_result, poll_status_code,
              poll_requests, poll_exc, fail_run, poll_backoff>>
streamVars == <<s_pc, wrapper_start, attempt_number, last_id, line, s_result,
                yielded, received, opened, all_refused, conn_cause,
                req_last_id, req_seen, req_mark, seen_id, skipped,
                s_exc, s_status_code, s_backoff, s_pause, closed,
                log, srv_pos, noise>>
appVars == <<app_pc, app_start, app_attempt, follow, app_line, app_result,
             app_message, app_status_code, app_yielded, app_opened, app_exc,
             app_backoff, app_lines>>
deployVars == <<d_pc, skip_wait, provided_app_id, requests, d_exit, d_message,
                build_complete, interrupted, d_log, streamed, d_stream_error,
                d_poll_error, final_status, app_answer, archived, upload_error>>
accVars == <<accessories_example_db, acc_response>>
vars == <<now, attemptVars, pollVars, streamVars, appVars, deployVars, accVars>>

(***************************************************************************)
(* Bounds of the model.                                                    *)
(***************************************************************************)
MaxAttemptNumber == 8       \* attempt numbers 0..MaxAttemptNumber are tried
MaxClock == 620             \* the clock saturates here (beyond every budget)
MaxCount == 10              \* the history counters of requests and connections saturate here
MaxLog == 3                 \* records with an id in the server's build log
MaxNoise == 1               \* lines without an id the server sends in one call
MaxAppLines == 2            \* lines the app-log server sends on one connection
MaxStreamed == 2            \* message records the build-log stream yields in one deploy run
MaxDb == 4                  \* add_accessory is called while the list is shorter than this

(***************************************************************************)
(* Constants of the program.                                               *)
(***************************************************************************)
TicksPerSecond == 2
Seconds(s) == s * TicksPerSecond

STREAM_LOGS_MAX_RETRIES == 3
STREAM_LOGS_TIMEOUT == Seconds(300)
POLL_INTERVAL == Seconds(2)
POLL_TIMEOUT == Seconds(120)
POLL_MAX_RETRIES == 5
CLIENT_TIMEOUT == 20
BUILD_LOGS_TIMEOUT == 60

Min(a, b) == IF a <= b THEN a ELSE b

RECURSIVE Pow2(_)
Pow2(n) == IF n = 0 THEN 1 ELSE 2 * Pow2(n - 1)

\* a history counter moves on
Count(n) == Min(n + 1, MaxCount)

\* time.sleep(d) and the duration of a blocking call: the clock moves on
Advance(t, d) == Min(t + d, MaxClock)

\* A blocking network call with the given timeout (seconds) answers at once
\* or takes the whole timeout.
NetDelays(timeout) == {0, Seconds(timeout)}

\* A line of a streamed response arrives at once, or drips in for as long as
\* the whole streaming budget without any single read timing out.
LineDelays == {0, STREAM_LOGS_TIMEOUT}

(***************************************************************************)
(* Exceptions.  cls is the class attempt() dispatches on; status is the    *)
(* response status of an httpx.HTTPStatusError.                            *)
(***************************************************************************)
NoExc == [cls |-> "none", status |-> 0]
Exc(c) == [cls |-> c, status |-> 0]
HTTPStatusError(code) == [cls |-> "HTTPStatusError", status |-> code]

\* the classes named in attempt's first except clause
NetworkErrors == {Exc("TimeoutException"), Exc("NetworkError"), Exc("RemoteProtocolError")}
\* response.raise_for_status() raises for every non-2xx answer
ErrorStatuses == {302, 401, 403, 404, 422, 499, 500, 503}
StatusErrors == {HTTPStatusError(c) : c \in ErrorStatuses}
\* exceptions no except clause of attempt names
OtherErrors == {Exc("ValueError")}
Exceptions == NetworkErrors \cup StatusErrors \cup OtherErrors

(***************************************************************************)
(* attempt(attempt_number)                                                 *)
(***************************************************************************)
BackoffSkipped(n) == Seconds(0)

BackoffUncapped(n) == Seconds(Pow2(n))

\* _backoff: backoff_seconds = min(2**attempt_number, 30)
Backoff(n) == Seconds(Min(Pow2(n), 30))

IsServerErrorFrom400(code) == code >= 400

\* if error.response.status_code >= 500
IsServerError(code) == code >= 500

\* What attempt does with the exception exc raised by its with-body:
\* slept = ticks slept by _backoff, raises = the class that leaves the
\* context manager ("none": the exception is suppressed, or there was none).
AttemptExit(n, exc) ==
    IF exc.cls = "none"
    THEN [slept |-> 0, raises |-> "none", status_code |-> 0]
    ELSE IF exc.cls \in {"TimeoutException", "NetworkError", "RemoteProtocolError"}
    THEN [slept |-> Backoff(n), raises |-> "none", status_code |-> 0]
    ELSE IF exc.cls = "HTTPStatusError"
    THEN IF IsServerError(exc.status)
         THEN [slept |-> Backoff(n), raises |-> "none", status_code |-> 0]
         ELSE [slept |-> 0, raises |-> "StreamLogError", status_code |-> exc.status]
    ELSE [slept |-> 0, raises |-> exc.cls, status_code |-> 0]

\* with attempt(n): entered
AttemptEnter ==
    /\ a_pc = "idle"
    /\ \E n \in 0..MaxAttemptNumber : a_number' = n
    /\ a_pc' = "body"
    /\ a_exc' = NoExc
    /\ a_slept' = 0
    /\ a_raised' = "none"
    /\ a_status_code' = 0
    /\ UNCHANGED <<now, pollVars, streamVars, appVars, deployVars, accVars>>

\* the with-body ends, normally or with an exception, and attempt handles it
AttemptBody ==
    /\ a_pc = "body"
    /\ \E exc \in Exceptions \cup {NoExc} :
         LET out == AttemptExit(a_number, exc) IN
         /\ a_exc' = exc
         /\ a_slept' = out.slept
         /\ a_raised' = out.raises
         /\ a_status_code' = out.status_code
         /\ now' = Advance(now, out.slept)
    /\ a_pc' = "exited"
    /\ UNCHANGED <<a_number, pollVars, streamVars, appVars, deployVars, accVars>>

\* the caller goes on to its next use of attempt
AttemptAgain ==
    /\ a_pc = "exited"
    /\ a_pc' = "idle"
    /\ now' = 0
    /\ UNCHANGED <<a_number, a_exc, a_slept, a_raised, a_status_code,
                   pollVars, streamVars, appVars, deployVars, accVars>>

(***************************************************************************)
(* DeploymentStatus                                                        *)
(***************************************************************************)
DeploymentStatus ==
    {"waiting_upload", "ready_for_build", "building", "extracting",
     "extracting_failed", "building_image", "building_image_failed",
     "deploying", "deploying_failed", "verifying", "verifying_failed",
     "verifying_skipped", "success", "failed"}

SUCCESSFUL_STATUSES == {"success", "verifying_skipped"}
FAILED_STATUSES ==
    {"failed", "verifying_failed", "deploying_failed",
     "building_image_failed", "extracting_failed"}

TerminalWithoutSkipped == (SUCCESSFUL_STATUSES \ {"verifying_skipped"}) \cup FAILED_STATUSES

TERMINAL_STATUSES == SUCCESSFUL_STATUSES \cup FAILED_STATUSES

\* the "status" strings a 200 answer can carry: the enumeration's values and
\* one string that is no member of it
WireStatuses == DeploymentStatus \cup {"not_a_status"}

\* DeploymentStatus(value): the member, or ValueError
ParseStatus(value) ==
    IF value \in DeploymentStatus
    THEN [ok |-> TRUE, status |-> value]
    ELSE [ok |-> FALSE, status |-> "none"]

(***************************************************************************)
(* poll_deployment_status                                                  *)
(***************************************************************************)
\* what self.get(...) + raise_for_status() + json()["status"] can produce
PollAnswers ==
    {[exc |-> NoExc, body |-> s] : s \in WireStatuses}
    \cup {[exc |-> e, body |-> "none"] : e \in NetworkErrors \cup StatusErrors}

\* start = time.monotonic(); error_count = 0
PollCall ==
    /\ poll_pc = "idle"
    /\ poll_start' = now
    /\ error_count' = 0
    /\ poll_pc' = "loop"
    /\ UNCHANGED <<now, attemptVars, streamVars, appVars, deployVars, accVars, status, poll_result,
                   poll_status_code, poll_requests,
                   poll_exc, fail_run, poll_backoff>>

PollTimedOutStreamBudget(elapsed) == elapsed > STREAM_LOGS_TIMEOUT

PollNeverTimesOut(elapsed) == FALSE

\* if time.monotonic() - start > POLL_TIMEOUT.total_seconds()
PollTimedOut(elapsed) == elapsed > POLL_TIMEOUT

\* top of the while loop: the budget check
PollLoop ==
    /\ poll_pc = "loop"
    /\ IF PollTimedOut(now - poll_start)
       THEN /\ poll_pc' = "raised"
            /\ poll_result' = "TimeoutError"
       ELSE /\ poll_pc' = "request"
            /\ UNCHANGED poll_result
    /\ UNCHANGED <<now, attemptVars, streamVars, appVars, deployVars, accVars, poll_start, error_count, status,
                   poll_status_code,
                   poll_requests, poll_exc, fail_run, poll_backoff>>

ErrorCountKept(count) == count

\* error_count = 0 after a fetched status
ErrorCountReset(count) == 0

\* the with attempt(error_count) block and the lines after it
PollAttempt ==
    /\ poll_pc = "request"
    /\ poll_requests' = Count(poll_requests)
    /\ \E ans \in PollAnswers, d \in NetDelays(CLIENT_TIMEOUT) :
         IF ans.exc = NoExc
         THEN LET parsed == ParseStatus(ans.body) IN
              IF ~parsed.ok
              THEN \* ValueError leaves the with-block: attempt does not catch it
                   LET out == AttemptExit(error_count, Exc("ValueError")) IN
                   /\ poll_exc' = Exc("ValueError")
                   /\ poll_pc' = "raised"
                   /\ poll_result' = out.raises
                   /\ poll_status_code' = out.status_code
                   /\ now' = Advance(now, d + out.slept)
                   /\ UNCHANGED <<error_count, status, fail_run, poll_backoff>>
              ELSE /\ status' = parsed.status
                   /\ UNCHANGED poll_status_code
                   /\ poll_exc' = NoExc
                   /\ error_count' = ErrorCountReset(error_count)
                   /\ fail_run' = 0
                   /\ poll_backoff' = <<0, 0>>
                   /\ IF parsed.status \in TERMINAL_STATUSES
                      THEN /\ poll_pc' = "returned"
                           /\ poll_result' = parsed.status
                           /\ now' = Advance(now, d)
                      ELSE \* time.sleep(POLL_INTERVAL); continue
                           /\ poll_pc' = "loop"
                           /\ now' = Advance(now, d + POLL_INTERVAL)
                           /\ UNCHANGED poll_result
         ELSE LET out == AttemptExit(error_count, ans.exc) IN
              /\ poll_exc' = ans.exc
              /\ poll_status_code' = out.status_code
              /\ IF out.raises # "none"
                 THEN /\ poll_pc' = "raised"
                      /\ poll_result' = out.raises
                      /\ now' = Advance(now, d + out.slept)
                      /\ UNCHANGED <<error_count, status, fail_run, poll_backoff>>
                 ELSE \* suppressed: error_count += 1 and the retry limit
                      /\ now' = Advance(now, d + out.slept)
                      /\ error_count' = error_count + 1
                      /\ fail_run' = fail_run + 1
                      /\ poll_backoff' = <<error_count, out.slept>>
                      /\ UNCHANGED status
                      /\ IF error_count + 1 >= POLL_MAX_RETRIES
                         THEN /\ poll_pc' = "raised"
                              /\ poll_result' = "TooManyRetriesError"
                         ELSE /\ poll_pc' = "loop"
                              /\ UNCHANGED poll_result
    /\ UNCHANGED <<attemptVars, streamVars, appVars, deployVars, accVars, poll_start>>

(***************************************************************************)
(* Build-log lines                                                         *)
(***************************************************************************)
NullId == 0

\* A line of the response: raw is "empty" (''), "blank" (white space only),
\* "garbage" (not JSON) or "json" (a JSON object with the fields given:
\* its "type", its "id" (NullId: null or absent), whether it has "message").
JsonLine(t, i, m) == [raw |-> "json", type |-> t, id |-> i, has_message |-> m]
TextLine(r) == [raw |-> r, type |-> "none", id |-> NullId, has_message |-> FALSE]
NoLine == TextLine("none")

\* a parsed BuildLogLine; None when the line is no BuildLogLine
LogLine(t, i) == [type |-> t, id |-> i]
None == LogLine("none", NullId)

GenericTypes == {"complete", "failed", "timeout", "heartbeat"}
LogTypes == {"message"} \cup GenericTypes

\* if not line or not line.strip()
IsBlank(l) == l.raw \in {"empty", "blank"}

ParseLogLineNoUnion(l) ==
    IF l.raw = "json" THEN LogLine(l.type, l.id) ELSE None

\* _parse_log_line: BuildLogAdapter.validate_json(line), None on ValidationError
ParseLogLine(l) ==
    IF l.raw # "json" THEN None
    ELSE IF l.type = "message"
         THEN IF l.has_message THEN LogLine("message", l.id) ELSE None
    ELSE IF l.type \in GenericTypes THEN LogLine(l.type, l.id)
    ELSE None

\* if log_line.id: last_id = log_line.id
NextLastId(cursor, log_line) ==
    IF log_line.id # NullId THEN log_line.id ELSE cursor

YieldedWithHeartbeats(log_line) ==
    IF log_line.type \in {"message", "complete", "failed", "heartbeat"}
    THEN <<log_line>> ELSE <<>>

\* what the loop body yields for a parsed line
Yielded(log_line) ==
    IF log_line.type = "message" THEN <<log_line>>
    ELSE IF log_line.type \in {"complete", "failed"} THEN <<log_line>>
    ELSE <<>>

NeverReturns(log_line) == FALSE

\* if log_line.type in ("complete", "failed"): yield log_line; return
ReturnsAfter(log_line) == log_line.type \in {"complete", "failed"}

NeverBreaks(log_line) == FALSE

\* if log_line.type == "timeout": break
BreaksAfter(log_line) == log_line.type = "timeout"

\* last_id = None at the top of stream_build_logs
FuncEntryLastId == NullId

ExhaustedOneLate(n) == n + 1 >= STREAM_LOGS_MAX_RETRIES + 1

\* for attempt_number in range(total_attempts): n was the last attempt
Exhausted(n) == n + 1 >= STREAM_LOGS_MAX_RETRIES

(***************************************************************************)
(* The build-log server: a log of records with ids 1, 2, ... that grows    *)
(* as it is first served; a connection opened with last_id = k serves the  *)
(* records after k.  Between them the server may send lines without an id  *)
(* (empty or malformed lines, heartbeats, timeouts).                       *)
(***************************************************************************)
NoiseLines ==
    {TextLine("empty"), TextLine("blank"), TextLine("garbage"),
     JsonLine("progress", NullId, TRUE), JsonLine("message", NullId, FALSE),
     JsonLine("heartbeat", NullId, FALSE), JsonLine("timeout", NullId, FALSE)}

\* the lines the server may send next on the open connection
ServerLines ==
    (IF srv_pos < Len(log)
     THEN {[l |-> log[srv_pos + 1], logged |-> FALSE, noisy |-> FALSE]}
     ELSE IF Len(log) < MaxLog
     THEN {[l |-> JsonLine(t, Len(log) + 1, t = "message"), logged |-> TRUE, noisy |-> FALSE] :
              t \in LogTypes}
     ELSE {})
    \cup (IF noise < MaxNoise
          THEN {[l |-> n, logged |-> FALSE, noisy |-> TRUE] : n \in NoiseLines}
          ELSE {})

(***************************************************************************)
(* attempts.wrapper and stream_build_logs                                  *)
(***************************************************************************)
\* start = time.monotonic(); the for loop begins
WrapperCall ==
    /\ s_pc = "idle"
    /\ wrapper_start' = now
    /\ attempt_number' = 0
    /\ s_pc' = "attempt"
    /\ UNCHANGED <<now, attemptVars, pollVars, appVars, deployVars, accVars, last_id, line, s_result, yielded,
                   received, opened, all_refused, conn_cause, req_last_id,
                   req_seen, req_mark, seen_id, skipped,
                   s_exc, s_status_code, s_backoff, s_pause, closed,
                   log, srv_pos, noise>>

\* if time.monotonic() - start > timeout.total_seconds()
WrapperTimedOut(elapsed) == elapsed > STREAM_LOGS_TIMEOUT

\* top of the for loop: the budget check, then func(*args, **kwargs) begins
WrapperLoop ==
    /\ s_pc = "attempt"
    /\ IF WrapperTimedOut(now - wrapper_start)
       THEN /\ s_pc' = "raised"
            /\ s_result' = "TimeoutError"
            /\ UNCHANGED <<last_id, conn_cause, s_exc, s_backoff, closed>>
       ELSE /\ s_pc' = "connect"
            /\ last_id' = FuncEntryLastId
            /\ conn_cause' = IF attempt_number = 0 THEN "call" ELSE "retry"
            /\ s_exc' = NoExc
            /\ s_backoff' = 0
            /\ closed' = FALSE
            /\ UNCHANGED s_result
    /\ UNCHANGED <<now, attemptVars, pollVars, appVars, deployVars, accVars, wrapper_start, attempt_number,
                   line, yielded, received, opened, all_refused,
                   req_last_id, req_seen, req_mark, seen_id, skipped,
                   s_status_code, s_pause,
                   log, srv_pos, noise>>

\* An exception exc leaves stream_build_logs after d ticks: attempt handles
\* it, and the for loop goes on or is exhausted.
AttemptFails(exc, d) ==
    LET out == AttemptExit(attempt_number, exc) IN
    /\ now' = Advance(now, d + out.slept)
    /\ s_exc' = exc
    /\ s_backoff' = out.slept
    /\ s_pause' = 0
    /\ s_status_code' = out.status_code
    /\ IF out.raises # "none"
       THEN /\ s_pc' = "raised"
            /\ s_result' = out.raises
            /\ UNCHANGED attempt_number
       ELSE IF Exhausted(attempt_number)
       THEN /\ s_pc' = "raised"
            /\ s_result' = "TooManyRetriesError"
            /\ UNCHANGED attempt_number
       ELSE /\ s_pc' = "attempt"
            /\ attempt_number' = attempt_number + 1
            /\ UNCHANGED s_result

FullSecondDelay == TicksPerSecond

\* time.sleep(0.5) after the with block
ReconnectDelay == TicksPerSecond \div 2

\* params = {"last_id": last_id} if last_id else None
RequestParams(cursor) == cursor

\* An answer, whatever its status, arrives at once; a request that gets no
\* answer fails at once or when its timeout has run out.
ConnectDelays(exc) ==
    IF exc \in StatusErrors THEN {0} ELSE NetDelays(BUILD_LOGS_TIMEOUT)

\* with self.stream("GET", ..., params=params): response.raise_for_status()
Connect ==
    /\ s_pc = "connect"
    /\ opened' = Count(opened)
    /\ req_last_id' = RequestParams(last_id)
    /\ req_seen' = seen_id
    /\ req_mark' = Len(yielded)
    /\ skipped' = FALSE
    /\ \/ \* the response's headers arrive
          /\ s_pc' = "reading"
          /\ srv_pos' = req_last_id'
          /\ all_refused' = FALSE
          /\ s_pause' = 0
          /\ closed' = FALSE
          /\ UNCHANGED <<now, attempt_number, s_result, s_exc, s_status_code,
                         s_backoff>>
       \/ \E exc \in Exceptions : \E d \in ConnectDelays(exc) :
            /\ AttemptFails(exc, d)
            /\ all_refused' = (all_refused /\ exc = Exc("NetworkError"))
            /\ closed' = FALSE
            /\ UNCHANGED srv_pos
    /\ UNCHANGED <<attemptVars, pollVars, appVars, deployVars, accVars, wrapper_start, last_id, line, yielded,
                   received, conn_cause, seen_id, log, noise>>

\* one turn of for line in response.iter_lines(), with what follows when the
\* loop is left
ReadLine ==
    /\ s_pc = "reading"
    /\ \/ \E sl \in ServerLines, d \in LineDelays :
            LET log_line == IF IsBlank(sl.l) THEN None ELSE ParseLogLine(sl.l) IN
            /\ line' = sl.l
            /\ log' = IF sl.logged THEN Append(log, sl.l) ELSE log
            /\ srv_pos' = IF sl.noisy THEN srv_pos ELSE srv_pos + 1
            /\ noise' = IF sl.noisy THEN noise + 1 ELSE noise
            /\ IF log_line = None
               THEN \* continue
                    /\ now' = Advance(now, d)
                    /\ skipped' = TRUE
                    /\ UNCHANGED <<s_pc, last_id, yielded, received, seen_id,
                                   conn_cause, s_pause>>
               ELSE /\ last_id' = NextLastId(last_id, log_line)
                    /\ UNCHANGED skipped
                    /\ seen_id' = IF log_line.id # NullId THEN log_line.id ELSE seen_id
                    /\ yielded' = yielded \o Yielded(log_line)
                    /\ received' = IF log_line.type = "message"
                                   THEN Append(received, log_line) ELSE received
                    /\ IF ReturnsAfter(log_line)
                       THEN /\ s_pc' = "returned"
                            /\ now' = Advance(now, d)
                            /\ UNCHANGED <<conn_cause, s_pause>>
                       ELSE IF BreaksAfter(log_line)
                       THEN \* break; time.sleep(0.5); the while loop goes on
                            /\ s_pc' = "connect"
                            /\ conn_cause' = "timeout"
                            /\ s_pause' = ReconnectDelay
                            /\ now' = Advance(now, d + ReconnectDelay)
                       ELSE /\ now' = Advance(now, d)
                            /\ UNCHANGED <<s_pc, conn_cause, s_pause>>
            /\ UNCHANGED <<attempt_number, s_result, s_exc, s_status_code,
                           s_backoff, closed>>
       \/ \* iter_lines ends: the for loop's else clause raises NetworkError
          \E d \in LineDelays :
            /\ AttemptFails(Exc("NetworkError"), d)
            /\ closed' = TRUE
            /\ UNCHANGED <<last_id, line, yielded, received, seen_id, conn_cause,
                           skipped, log, srv_pos, noise>>
       \/ \* iter_lines raises
          \E exc \in NetworkErrors \cup OtherErrors, d \in NetDelays(BUILD_LOGS_TIMEOUT) :
            /\ AttemptFails(exc, d)
            /\ closed' = FALSE
            /\ UNCHANGED <<last_id, line, yielded, received, seen_id, conn_cause,
                           skipped, log, srv_pos, noise>>
    /\ UNCHANGED <<attemptVars, pollVars, appVars, deployVars, accVars, wrapper_start, opened, all_refused,
                   req_last_id, req_seen, req_mark>>

(***************************************************************************)
(* attempts.wrapper and stream_app_logs                                    *)
(***************************************************************************)
APP_LOGS_TIMEOUT == 30
APP_LOGS_FOLLOW_TIMEOUT == 120

\* timeout = 120 if follow else 30
AppLogsTimeout(f) == IF f THEN APP_LOGS_FOLLOW_TIMEOUT ELSE APP_LOGS_TIMEOUT

\* A line of the app-log response: raw is "empty", "blank", "garbage" (not
\* JSON), "value" (JSON, but no object) or "object"; of an object: its
\* "type" ("log": any other value, or none), whether it has "message", and
\* whether it holds the three string fields of an AppLogEntry.
AppLine(r, t, m, v) == [raw |-> r, type |-> t, has_message |-> m, valid |-> v]
NoAppLine == AppLine("none", "none", FALSE, FALSE)

AppLines ==
    {AppLine(r, "none", FALSE, FALSE) : r \in {"empty", "blank", "garbage", "value"}}
    \cup {AppLine("object", "heartbeat", FALSE, FALSE),
          AppLine("object", "error", TRUE, FALSE),
          AppLine("object", "error", FALSE, FALSE),
          AppLine("object", "log", TRUE, TRUE),
          AppLine("object", "log", TRUE, FALSE),
          AppLine("object", "log", FALSE, FALSE)}

AppLineStepSkipsAll(l) == [does |-> "continue", exc |-> NoExc]

\* What the body of the for loop does with a line: it goes on to the next
\* line ("continue"), yields an entry and goes on ("yield"), or raises.
AppLineStep(l) ==
    IF l.raw \in {"empty", "blank"} THEN [does |-> "continue", exc |-> NoExc]
    ELSE IF l.raw = "garbage" THEN [does |-> "continue", exc |-> NoExc]
    ELSE IF l.raw = "value" THEN [does |-> "raise", exc |-> Exc("AttributeError")]
    ELSE IF l.type = "heartbeat" THEN [does |-> "continue", exc |-> NoExc]
    ELSE IF l.type = "error" THEN [does |-> "raise", exc |-> Exc("StreamLogError")]
    ELSE IF l.valid THEN [does |-> "yield", exc |-> NoExc]
    ELSE [does |-> "continue", exc |-> NoExc]

\* data.get("message", "Unknown error")
ErrorMessage(l) == IF l.has_message THEN "message" ELSE "Unknown error"

\* start = time.monotonic(); the for loop begins
AppWrapperCall ==
    /\ app_pc = "idle"
    /\ app_start' = now
    /\ app_attempt' = 0
    /\ \E f \in BOOLEAN : follow' = f
    /\ app_pc' = "attempt"
    /\ UNCHANGED <<now, attemptVars, pollVars, streamVars, deployVars, accVars, app_line, app_result,
                   app_message, app_status_code, app_yielded, app_opened,
                   app_exc, app_backoff, app_lines>>

\* top of the for loop: the budget check, then func(*args, **kwargs) begins
AppWrapperLoop ==
    /\ app_pc = "attempt"
    /\ IF WrapperTimedOut(now - app_start)
       THEN /\ app_pc' = "raised"
            /\ app_result' = "TimeoutError"
            /\ UNCHANGED <<app_exc, app_backoff>>
       ELSE /\ app_pc' = "connect"
            /\ app_exc' = NoExc
            /\ app_backoff' = 0
            /\ UNCHANGED app_result
    /\ UNCHANGED <<now, attemptVars, pollVars, streamVars, deployVars, accVars, app_start, app_attempt,
                   follow, app_line, app_message, app_status_code, app_yielded,
                   app_opened, app_lines>>

\* An exception exc leaves stream_app_logs after d ticks: attempt handles
\* it, and the for loop of the wrapper goes on or is exhausted.
AppAttemptFails(exc, d) ==
    LET out == AttemptExit(app_attempt, exc) IN
    /\ now' = Advance(now, d + out.slept)
    /\ app_exc' = exc
    /\ app_backoff' = out.slept
    /\ app_status_code' = out.status_code
    /\ IF out.raises # "none"
       THEN /\ app_pc' = "raised"
            /\ app_result' = out.raises
            /\ UNCHANGED app_attempt
       ELSE IF Exhausted(app_attempt)
       THEN /\ app_pc' = "raised"
            /\ app_result' = "TooManyRetriesError"
            /\ UNCHANGED app_attempt
       ELSE /\ app_pc' = "attempt"
            /\ app_attempt' = app_attempt + 1
            /\ UNCHANGED app_result

\* with self.stream("GET", ..., timeout=timeout): response.raise_for_status()
AppConnect ==
    /\ app_pc = "connect"
    /\ app_opened' = Count(app_opened)
    /\ \/ /\ app_pc' = "reading"
          /\ app_lines' = 0
          /\ UNCHANGED <<now, app_attempt, app_result, app_status_code, app_exc,
                         app_backoff>>
       \/ \E exc \in Exceptions :
            \E d \in IF exc \in StatusErrors THEN {0} ELSE NetDelays(AppLogsTimeout(follow)) :
              /\ AppAttemptFails(exc, d)
              /\ UNCHANGED app_lines
    /\ UNCHANGED <<attemptVars, pollVars, streamVars, deployVars, accVars, app_start, follow, app_line,
                   app_message, app_yielded>>

\* one turn of for line in response.iter_lines(), or the end of the loop
AppReadLine ==
    /\ app_pc = "reading"
    /\ \/ \E l \in AppLines, d \in LineDelays :
            LET step == AppLineStep(l) IN
            /\ app_lines < MaxAppLines
            /\ app_line' = l
            /\ app_lines' = app_lines + 1
            /\ IF step.does = "raise"
               THEN /\ AppAttemptFails(step.exc, d)
                    /\ app_message' = IF step.exc = Exc("StreamLogError")
                                      THEN ErrorMessage(l) ELSE app_message
                    /\ UNCHANGED app_yielded
               ELSE /\ now' = Advance(now, d)
                    /\ app_yielded' = IF step.does = "yield"
                                      THEN Append(app_yielded, app_lines + 1)
                                      ELSE app_yielded
                    /\ UNCHANGED <<app_pc, app_attempt, app_result, app_message,
                                   app_status_code, app_exc, app_backoff>>
       \/ \* iter_lines ends: the function returns, and so does the wrapper
          \E d \in LineDelays :
            /\ app_pc' = "returned"
            /\ now' = Advance(now, d)
            /\ UNCHANGED <<app_attempt, app_line, app_result, app_message,
                           app_status_code, app_yielded, app_exc, app_backoff,
                           app_lines>>
       \/ \* iter_lines raises
          \E exc \in NetworkErrors \cup OtherErrors :
            \E d \in NetDelays(AppLogsTimeout(follow)) :
              /\ AppAttemptFails(exc, d)
              /\ UNCHANGED <<app_line, app_message, app_yielded, app_lines>>
    /\ UNCHANGED <<attemptVars, pollVars, streamVars, deployVars, accVars, app_start, follow, app_opened>>

(***************************************************************************)
(* deploy (commands/deploy.py), from the app lookup on.  The remote        *)
(* operations are recorded in requests, in the order they are issued.      *)
(***************************************************************************)
Request(o, k) == [op |-> o, ok |-> k]

\* what a request made by deploy can end with: NoExc is an answer that the
\* caller accepts, the others are raised by the client, raise_for_status or
\* model_validate
DeployErrors ==
    {Exc("ReadTimeout"), Exc("ConnectError"), Exc("ValidationError")} \cup StatusErrors
Answers == {NoExc} \cup DeployErrors

\* the classes of httpx.HTTPError among them
HTTPErrors == {"HTTPStatusError", "ConnectError", "ReadTimeout"}

\* handle_http_error: the message for an HTTPError
HandleHttpError(exc) ==
    IF exc.cls = "HTTPStatusError" /\ exc.status = 401 THEN "unauthorized"
    ELSE IF exc.cls = "HTTPStatusError" /\ exc.status = 403 THEN "forbidden"
    ELSE "generic"

HandleHttpErrorsSwallows(exc) == [exit |-> "none", message |-> "none"]

\* handle_http_errors: how the with block ends when its body ended with exc
\* (exit "none": the run goes on)
HandleHttpErrors(exc) ==
    IF exc = NoExc THEN [exit |-> "none", message |-> "none"]
    ELSE IF exc.cls = "ReadTimeout" THEN [exit |-> "Exit1", message |-> "timed_out"]
    ELSE IF exc.cls \in HTTPErrors THEN [exit |-> "Exit1", message |-> HandleHttpError(exc)]
    ELSE [exit |-> exc.cls, message |-> "none"]

GetAppRaisesOn404(ans) == IF ans = NoExc THEN "app" ELSE "raise"

\* _get_app: an AppResponse, None on 404, or the exception
GetApp(ans) ==
    IF ans = NoExc THEN "app"
    ELSE IF ans = HTTPStatusError(404) THEN "none"
    ELSE "raise"

CancelUploadLetsOut(exc) == exc

\* _cancel_upload: except Exception: only logged, nothing gets out
CancelUpload(exc) == NoExc

\* the run ends: normally ("ok"), by typer.Exit(1) ("Exit1") or by the
\* exception named
Finish(exit, message) ==
    /\ d_pc' = "done"
    /\ d_exit' = exit
    /\ d_message' = IF message = "none" THEN d_message ELSE message

\* the body of a with handle_http_errors(progress) block ended with ans
AfterRequest(ans, next_pc) ==
    LET h == HandleHttpErrors(ans) IN
    IF h.exit = "none"
    THEN d_pc' = next_pc /\ UNCHANGED <<d_exit, d_message>>
    ELSE Finish(h.exit, h.message)

\* deploy(path, skip_wait, provided_app_id), logged in and configured
DeployCall ==
    /\ d_pc = "idle"
    /\ \E w \in BOOLEAN, p \in BOOLEAN : skip_wait' = w /\ provided_app_id' = p
    /\ d_pc' = "check_app"
    /\ UNCHANGED <<now, attemptVars, pollVars, streamVars, appVars, accVars, upload_error, archived, requests, d_exit,
                   d_message, build_complete, interrupted, d_log, streamed,
                   d_stream_error, d_poll_error, final_status, app_answer>>

\* with toolkit.progress("Checking app..."): app = _get_app(target_app_id)
CheckApp ==
    /\ d_pc = "check_app"
    /\ \E ans \in Answers :
         /\ app_answer' = ans
         /\ requests' = Append(requests, Request("get_app", GetApp(ans) = "app"))
         /\ IF GetApp(ans) = "app" THEN d_pc' = "archive" /\ UNCHANGED <<d_exit, d_message>>
            ELSE IF GetApp(ans) = "none" THEN Finish("Exit1", "app_not_found")
            ELSE AfterRequest(ans, "archive")
    /\ UNCHANGED <<now, attemptVars, pollVars, streamVars, appVars, accVars, upload_error, archived, skip_wait,
                   provided_app_id, build_complete, interrupted, d_log, streamed,
                   d_stream_error, d_poll_error, final_status>>

ArchiveErrorIgnored(ok) == "return"

\* archive: returns tar_path, or the exception of the walk or of the tar
\* writer gets out (nothing in deploy catches it)
ArchiveOutcome(ok) == IF ok THEN "return" ELSE "raise"

\* archive(path or Path.cwd(), archive_path)
Archive ==
    /\ d_pc = "archive"
    /\ \E ok \in BOOLEAN :
         /\ archived' = IF ok THEN "written" ELSE "failed"
         /\ IF ArchiveOutcome(ok) = "return"
            THEN d_pc' = "create" /\ UNCHANGED <<d_exit, d_message>>
            ELSE Finish("OSError", "none")
    /\ UNCHANGED <<now, attemptVars, pollVars, streamVars, appVars, accVars, upload_error, skip_wait,
                   provided_app_id, requests, build_complete, interrupted, d_log,
                   streamed, d_stream_error, d_poll_error, final_status, app_answer>>

\* one request of the block "Creating deployment", in the block's order
UploadStep(pc, o, next_pc) ==
    /\ d_pc = pc
    /\ \E ans \in Answers :
         /\ requests' = Append(requests, Request(o, ans = NoExc))
         /\ upload_error' = ans
         /\ AfterRequest(ans, next_pc)
    /\ UNCHANGED <<now, attemptVars, pollVars, streamVars, appVars, accVars, archived, skip_wait,
                   provided_app_id, build_complete, interrupted, d_log, streamed,
                   d_stream_error, d_poll_error, final_status, app_answer>>

\* deployment = _create_deployment(app.id)
CreateDeployment == UploadStep("create", "create_deployment", "upload")

\* _upload_deployment: fastapi_client.post(".../upload")
RequestUpload == UploadStep("upload", "upload", "transfer")

\* _upload_deployment: client.post(upload_data.url, ...)
TransferArchive == UploadStep("transfer", "transfer", "upload_complete")

\* _upload_deployment: fastapi_client.post(".../upload-complete")
NotifyUploadComplete == UploadStep("upload_complete", "upload_complete", "uploaded")

AlwaysWaits(skip) == TRUE

\* if not skip_wait: _wait_for_deployment(...) else: the dashboard URL is printed
WaitsForDeployment(skip) == ~skip

\* progress.log("Deployment uploaded successfully!"), then if not skip_wait
Uploaded ==
    /\ d_pc = "uploaded"
    /\ IF WaitsForDeployment(skip_wait)
       THEN d_pc' = "streaming" /\ UNCHANGED <<d_exit, d_message>>
       ELSE Finish("ok", "dashboard")
    /\ UNCHANGED <<now, attemptVars, pollVars, streamVars, appVars, accVars, upload_error, archived, skip_wait,
                   provided_app_id, requests, build_complete, interrupted, d_log,
                   streamed, d_stream_error, d_poll_error, final_status, app_answer>>

\* the request deploy is about to issue, or has in flight, at each place
OpAt(pc) ==
    CASE pc = "create" -> "create_deployment"
      [] pc = "upload" -> "upload"
      [] pc = "transfer" -> "transfer"
      [] pc = "upload_complete" -> "upload_complete"
      [] OTHER -> "none"

\* the lines of the try block of deploy, named by the place they wait at
TryBlock == {"upload", "transfer", "upload_complete", "uploaded"}

\* what the request of _cancel_upload can end with
CancelAnswers == Answers \ {Exc("ValidationError")}

\* KeyboardInterrupt while the deployment is created and uploaded: inside
\* the try block _cancel_upload runs and the interrupt is raised again
Interrupt ==
    /\ d_pc \in {"create"} \cup TryBlock
    /\ interrupted' = d_pc
    /\ \E in_flight \in BOOLEAN :
         LET issued == IF in_flight /\ OpAt(d_pc) # "none"
                       THEN Append(requests, Request(OpAt(d_pc), FALSE))
                       ELSE requests IN
         IF d_pc \in TryBlock
         THEN \E ans \in CancelAnswers :
                LET out == CancelUpload(ans) IN
                /\ requests' = Append(issued, Request("upload_cancelled", ans = NoExc))
                /\ Finish(IF out = NoExc THEN "KeyboardInterrupt" ELSE out.cls, "none")
         ELSE /\ requests' = issued
              /\ Finish("KeyboardInterrupt", "none")
    /\ UNCHANGED <<now, attemptVars, pollVars, streamVars, appVars, accVars, upload_error, archived, skip_wait,
                   provided_app_id, build_complete, d_log, streamed,
                   d_stream_error, d_poll_error, final_status, app_answer>>

\* what one step of the generator stream_build_logs gives its consumer
StreamRaises == {"StreamLogError", "TooManyRetriesError", "TimeoutError", "ValueError"}
StreamEvents ==
    {[kind |-> "yield", what |-> t] : t \in {"message", "complete", "failed"}}
    \cup {[kind |-> "raise", what |-> e] : e \in StreamRaises}

RecordStepFailedBreaks(t) == IF t \in {"complete", "failed"} THEN "break" ELSE "next"

\* the body of the for loop of _wait_for_deployment
RecordStep(t) ==
    IF t = "complete" THEN "break"
    ELSE IF t = "failed" THEN "exit"
    ELSE "next"

\* except (StreamLogError, TooManyRetriesError, TimeoutError) of _wait_for_deployment
StreamErrorsCaught == {"StreamLogError", "TooManyRetriesError", "TimeoutError"}

\* one turn of for log in client.stream_build_logs(deployment.id)
StreamNext ==
    /\ d_pc = "streaming"
    /\ \E ev \in StreamEvents :
         LET first == requests[Len(requests)].op # "build_logs"
             done == ev.kind = "yield" /\ RecordStep(ev.what) = "break"
         IN
         /\ requests' = IF first THEN Append(requests, Request("build_logs", done))
                        ELSE [requests EXCEPT ![Len(requests)].ok = done]
         /\ IF ev.kind = "yield"
            THEN /\ ev.what = "message" => streamed < MaxStreamed
                 /\ d_log' = ev.what
                 /\ streamed' = streamed + 1
                 /\ UNCHANGED d_stream_error
                 /\ IF RecordStep(ev.what) = "break"
                    THEN \* build_complete = True; break; if build_complete
                         /\ build_complete' = TRUE
                         /\ d_pc' = "polling"
                         /\ UNCHANGED <<d_exit, d_message>>
                    ELSE IF RecordStep(ev.what) = "exit"
                    THEN /\ Finish("Exit1", "build_failed")
                         /\ UNCHANGED build_complete
                    ELSE UNCHANGED <<d_pc, d_exit, d_message, build_complete>>
            ELSE /\ d_stream_error' = ev.what
                 /\ IF ev.what \in StreamErrorsCaught
                    THEN Finish("Exit1", "stream_failed")
                    ELSE Finish(ev.what, "none")
                 /\ UNCHANGED <<d_log, streamed, build_complete>>
    /\ UNCHANGED <<now, attemptVars, pollVars, streamVars, appVars, accVars, upload_error, archived, skip_wait,
                   provided_app_id, interrupted, d_poll_error, final_status,
                   app_answer>>

\* what poll_deployment_status gives its caller
PollRaises == {"TimeoutError", "TooManyRetriesError", "StreamLogError", "ValueError"}
PollOutcomes ==
    {[kind |-> "return", what |-> s] : s \in TERMINAL_STATUSES}
    \cup {[kind |-> "raise", what |-> e] : e \in PollRaises}

VerifyCatchesNothing == {}

\* except (TimeoutError, TooManyRetriesError, StreamLogError) of _verify_deployment
VerifyErrorsCaught == {"TimeoutError", "TooManyRetriesError", "StreamLogError"}

VerifyAlwaysCompletes(s) == "ok"

\* if final_status in SUCCESSFUL_STATUSES: ... else: raise typer.Exit(1)
VerifyExit(s) == IF s \in SUCCESSFUL_STATUSES THEN "ok" ELSE "Exit1"

\* _verify_deployment
VerifyDeployment ==
    /\ d_pc = "polling"
    /\ \E out \in PollOutcomes :
         /\ requests' = Append(requests, Request("deployment_status", out.kind = "return"))
         /\ IF out.kind = "return"
            THEN /\ final_status' = out.what
                 /\ Finish(VerifyExit(out.what),
                           IF out.what \in SUCCESSFUL_STATUSES THEN "ready" ELSE "deploy_failed")
                 /\ UNCHANGED d_poll_error
            ELSE /\ d_poll_error' = out.what
                 /\ IF out.what \in VerifyErrorsCaught
                    THEN Finish("ok", "unconfirmed")
                    ELSE Finish(out.what, "none")
                 /\ UNCHANGED final_status
    /\ UNCHANGED <<now, attemptVars, pollVars, streamVars, appVars, accVars, upload_error, archived, skip_wait,
                   provided_app_id, build_complete, interrupted, d_log, streamed,
                   d_stream_error, app_answer>>

(***************************************************************************)
(* The accessories application of src/main.py                              *)
(***************************************************************************)
\* an Accessory body and a record of accessories_example_db
Accessory(n, c, s) == [name |-> n, color |-> c, in_stock |-> s]
Record(i, a) == [id |-> i, name |-> a.name, color |-> a.color, in_stock |-> a.in_stock]

\* the bodies the clients send
AccessoryBodies ==
    {Accessory("Coque iPhone 14", "Noir", TRUE), Accessory("Cable USB", "Blanc", FALSE)}

\* the accessory_id path parameters the clients send
AccessoryIds == 0..(MaxDb + 1)

\* the list as the module creates it
InitialDb ==
    << Record(1, Accessory("Coque iPhone 14", "Noir", TRUE)),
       Record(2, Accessory("Chargeur Samsung", "Blanc", FALSE)),
       Record(3, Accessory("Ecouteurs Bluetooth", "Bleu", TRUE)) >>

\* the first index of db whose record has this id (0: the loop ends without one)
FirstWithId(db, accessory_id) ==
    IF \E i \in DOMAIN db : db[i].id = accessory_id
    THEN CHOOSE i \in DOMAIN db :
           /\ db[i].id = accessory_id
           /\ \A j \in DOMAIN db : db[j].id = accessory_id => i <= j
    ELSE 0

\* list.pop(i)
Pop(db, i) == [k \in 1..(Len(db) - 1) |-> IF k < i THEN db[k] ELSE db[k + 1]]

\* new_id = len(accessories_example_db) + 1
NewId(db) == Len(db) + 1

\* add_accessory(accessory)
AddAccessory ==
    /\ Len(accessories_example_db) < MaxDb
    /\ \E accessory \in AccessoryBodies :
         accessories_example_db' =
             Append(accessories_example_db, Record(NewId(accessories_example_db), accessory))
    /\ acc_response' = "new_acc"
    /\ UNCHANGED <<now, attemptVars, pollVars, streamVars, appVars, deployVars>>

\* update_accessory(accessory_id, accessory)
UpdateAccessory ==
    /\ \E accessory_id \in AccessoryIds, accessory \in AccessoryBodies :
         LET i == FirstWithId(accessories_example_db, accessory_id) IN
         IF i # 0
         THEN /\ accessories_example_db' =
                     [accessories_example_db EXCEPT ![i] = Record(accessory_id, accessory)]
              /\ acc_response' = "updated"
         ELSE /\ acc_response' = "not found!"
              /\ UNCHANGED accessories_example_db
    /\ UNCHANGED <<now, attemptVars, pollVars, streamVars, appVars, deployVars>>

\* delete_accessory(accessory_id)
DeleteAccessory ==
    /\ \E accessory_id \in AccessoryIds :
         LET i == FirstWithId(accessories_example_db, accessory_id) IN
         IF i # 0
         THEN /\ accessories_example_db' = Pop(accessories_example_db, i)
              /\ acc_response' = "deleted"
         ELSE /\ acc_response' = "not found!"
              /\ UNCHANGED accessories_example_db
    /\ UNCHANGED <<now, attemptVars, pollVars, streamVars, appVars, deployVars>>

(***************************************************************************)
(* Specifications                                                          *)
(***************************************************************************)
InitAttempt ==
    /\ a_pc = "idle"
    /\ a_number = 0
    /\ a_exc = NoExc
    /\ a_slept = 0
    /\ a_raised = "none"
    /\ a_status_code = 0

InitPoll ==
    /\ poll_pc = "idle"
    /\ poll_start = 0
    /\ error_count = 0
    /\ status = "none"
    /\ poll_result = "none"
    /\ poll_status_code = 0
    /\ poll_requests = 0
    /\ poll_exc = NoExc
    /\ fail_run = 0
    /\ poll_backoff = <<0, 0>>

InitStream ==
    /\ s_pc = "idle"
    /\ wrapper_start = 0
    /\ attempt_number = 0
    /\ last_id = NullId
    /\ line = NoLine
    /\ s_result = "none"
    /\ yielded = <<>>
    /\ received = <<>>
    /\ opened = 0
    /\ all_refused = TRUE
    /\ conn_cause = "call"
    /\ req_last_id = NullId
    /\ req_seen = NullId
    /\ req_mark = 0
    /\ seen_id = NullId
    /\ skipped = FALSE
    /\ s_exc = NoExc
    /\ s_status_code = 0
    /\ s_backoff = 0
    /\ s_pause = 0
    /\ closed = FALSE
    /\ log = <<>>
    /\ srv_pos = 0
    /\ noise = 0

InitAppLogs ==
    /\ app_pc = "idle"
    /\ app_start = 0
    /\ app_attempt = 0
    /\ follow = FALSE
    /\ app_line = NoAppLine
    /\ app_result = "none"
    /\ app_message = "none"
    /\ app_status_code = 0
    /\ app_yielded = <<>>
    /\ app_opened = 0
    /\ app_exc = NoExc
    /\ app_backoff = 0
    /\ app_lines = 0

InitDeploy ==
    /\ d_pc = "idle"
    /\ skip_wait = FALSE
    /\ provided_app_id = FALSE
    /\ requests = <<>>
    /\ d_exit = "none"
    /\ d_message = "none"
    /\ build_complete = FALSE
    /\ interrupted = "none"
    /\ d_log = "none"
    /\ streamed = 0
    /\ d_stream_error = "none"
    /\ d_poll_error = "none"
    /\ final_status = "none"
    /\ app_answer = NoExc
    /\ archived = "none"
    /\ upload_error = NoExc

InitAccessories ==
    /\ accessories_example_db = InitialDb
    /\ acc_response = "none"

Init ==
    /\ now = 0
    /\ InitAttempt
    /\ InitPoll
    /\ InitStream
    /\ InitAppLogs
    /\ InitDeploy
    /\ InitAccessories

NextAttempt == AttemptEnter \/ AttemptBody \/ AttemptAgain
SpecAttempt == Init /\ [][NextAttempt]_vars

NextPoll == PollCall \/ PollLoop \/ PollAttempt
SpecPoll == Init /\ [][NextPoll]_vars

\* poll_deployment_status runs in one thread of blocking calls: a request
\* ends by its answer or its timeout and a sleep ends, so a step that can be
\* taken is taken
SpecPollLive == SpecPoll /\ WF_vars(NextPoll)

NextStream == WrapperCall \/ WrapperLoop \/ Connect \/ ReadLine
SpecStream == Init /\ [][NextStream]_vars

NextAppLogs == AppWrapperCall \/ AppWrapperLoop \/ AppConnect \/ AppReadLine
SpecAppLogs == Init /\ [][NextAppLogs]_vars

NextDeploy ==
    \/ DeployCall \/ CheckApp \/ Archive \/ CreateDeployment \/ RequestUpload
    \/ TransferArchive \/ NotifyUploadComplete \/ Uploaded \/ Interrupt
    \/ StreamNext \/ VerifyDeployment
SpecDeploy == Init /\ [][NextDeploy]_vars

NextAccessories == AddAccessory \/ UpdateAccessory \/ DeleteAccessory
SpecAccessories == Init /\ [][NextAccessories]_vars

\* A run of the client makes one of the calls: attempt on its own, or one of
\* the three functions of APIClient that use it.
Next ==
    \/ InitPoll /\ InitStream /\ InitAppLogs /\ NextAttempt
    \/ InitAttempt /\ InitStream /\ InitAppLogs /\ NextPoll
    \/ InitAttempt /\ InitPoll /\ InitAppLogs /\ NextStream
    \/ InitAttempt /\ InitPoll /\ InitStream /\ NextAppLogs
Spec == Init /\ [][Next]_vars

(***************************************************************************)
(* Properties                                                              *)
(***************************************************************************)
\* the backoff of attempt number n, in seconds, as a table
ExpectedBackoffSeconds(n) == IF n >= 5 THEN 30 ELSE <<1, 2, 4, 8, 16>>[n + 1]

\* the exception is one attempt treats as transient
IsTransient(exc) ==
    \/ exc \in NetworkErrors
    \/ exc.cls = "HTTPStatusError" /\ exc.status >= 500

\* the seven statuses the poller is said to return on
ReturningStatuses ==
    {"success", "verifying_skipped", "failed", "verifying_failed",
     "deploying_failed", "building_image_failed", "extracting_failed"}

PollFetched == poll_pc = "request" /\ poll_pc' # "request" /\ poll_exc' = NoExc

\* C1: poll_deployment_status returns only on a fetched status among the
\* seven terminal ones, and on the first such status it fetches (the step
\* that fetches it returns it); the step that fetches any other member of
\* DeploymentStatus neither returns nor raises and goes back to the top of
\* the loop for another poll.
C1_PollReturnsIffTerminal ==
    /\ [](poll_pc = "returned" =>
            /\ poll_exc = NoExc
            /\ status \in ReturningStatuses
            /\ poll_result = status)
    /\ [][/\ (PollFetched /\ status' \in ReturningStatuses) =>
                (poll_pc' = "returned" /\ poll_result' = status')
          /\ (PollFetched /\ status' \in DeploymentStatus \ ReturningStatuses) =>
                (poll_pc' = "loop" /\ poll_result' = "none")
          /\ (poll_pc # "returned" /\ poll_pc' = "returned") => PollFetched]_vars

\* a terminal status is returned after pending ones were fetched
C1_Witness ==
    /\ poll_pc = "returned"
    /\ poll_requests >= 3
    /\ poll_result = "verifying_skipped"

\* C7: on a transient failure attempt(n) sleeps min(2^n, 30) seconds
\* (1, 2, 4, 8, 16, then 30), and no smaller attempt number sleeps longer.
C7_BackoffDelay ==
    (a_pc = "exited" /\ IsTransient(a_exc)) =>
        /\ a_raised = "none"
        /\ a_slept = Seconds(ExpectedBackoffSeconds(a_number))
        /\ \A m \in 0..a_number : AttemptExit(m, a_exc).slept <= a_slept

\* a transient failure at an attempt number beyond the cap
C7_Witness ==
    /\ a_pc = "exited"
    /\ IsTransient(a_exc)
    /\ a_number >= 6
    /\ a_slept = Seconds(30)

\* C9: TooManyRetriesError is raised exactly when 5 transient failures
\* occurred in a row; error_count is the length of the current run of
\* failures (a fetched status sets it back to 0), and each failure slept the
\* backoff of the counter's value before the increment.
C9_TooManyRetriesIffFiveInARow ==
    /\ (poll_result = "TooManyRetriesError") <=> (fail_run >= 5)
    /\ fail_run <= 5
    /\ error_count = fail_run
    /\ fail_run > 0 =>
         poll_backoff = <<fail_run - 1, Seconds(ExpectedBackoffSeconds(fail_run - 1))>>
    /\ (poll_pc \in {"loop", "request"} /\ poll_exc = NoExc) => error_count = 0

\* five failures in a row after earlier failures that a success separated
C9_Witness ==
    /\ poll_pc = "raised"
    /\ poll_result = "TooManyRetriesError"
    /\ poll_requests >= 9
    /\ status = "building"

\* C10: an iteration that starts more than 120 s after the poll began
\* raises TimeoutError without a request, whatever error_count is, and no
\* request is issued once more than 120 s have elapsed.
C10_PollTimeout ==
    /\ [](poll_pc = "request" => now - poll_start <= Seconds(120))
    /\ [][/\ (poll_pc = "loop" /\ now - poll_start > Seconds(120)) =>
                /\ poll_pc' = "raised"
                /\ poll_result' = "TimeoutError"
                /\ poll_requests' = poll_requests
          /\ (poll_requests' # poll_requests) => now - poll_start <= Seconds(120)
          /\ (poll_pc = "raised") => (poll_requests' = poll_requests)]_vars

\* the budget ran out while error_count was not zero
C10_Witness ==
    /\ poll_pc = "raised"
    /\ poll_result = "TimeoutError"
    /\ error_count > 0

TerminalTypes == {"complete", "failed"}
HasTerminal(seq) == \E i \in DOMAIN seq : seq[i].type \in TerminalTypes

\* C2: once stream_build_logs has yielded a complete or failed record it has
\* returned: it yields nothing more and opens no further connection.
C2_NothingAfterTerminal ==
    /\ [](HasTerminal(yielded) => s_pc = "returned")
    /\ [][HasTerminal(yielded) =>
            (yielded' = yielded /\ opened' = opened /\ s_pc' = s_pc)]_vars

\* a terminal record was yielded in the first attempt while the server still
\* had lines to send
C2_Witness ==
    /\ s_pc = "returned"
    /\ HasTerminal(yielded)
    /\ attempt_number = 0
    /\ noise < MaxNoise
    /\ Len(log) < MaxLog

\* the last request was the one issued for the given cause
LastRequestFor(cause) == conn_cause = cause /\ s_pc # "connect" /\ opened > 0

\* no record yielded since the last request had been yielded before it
NoRedeliverySinceRequest ==
    \A i \in 1..req_mark : \A j \in (req_mark + 1)..Len(yielded) :
        yielded[i] # yielded[j]

\* C3: the request that follows a timeout record carries the last non-null
\* id seen on any record of this call, and no message yielded before that
\* reconnect is yielded again after it.
C3_TimeoutReconnectResumes ==
    LastRequestFor("timeout") =>
        /\ req_last_id = req_seen
        /\ NoRedeliverySinceRequest

\* Without a failed attempt before it, the request that follows a timeout
\* record does carry the last id seen and redelivers nothing.
TimeoutReconnectResumesInFirstAttempt ==
    (LastRequestFor("timeout") /\ attempt_number = 0) =>
        /\ req_last_id = req_seen
        /\ NoRedeliverySinceRequest

\* C4: the request that follows a connection closed without a terminal
\* record (a retry of the attempts budget) carries the last non-null id
\* seen in this call, and no message yielded before is yielded again.
C4_RetryResumes ==
    LastRequestFor("retry") =>
        /\ req_last_id = req_seen
        /\ NoRedeliverySinceRequest

\* the step consumes a line of the response
LineRead == s_pc = "reading" /\ (noise' # noise \/ srv_pos' # srv_pos)

\* the line is empty, or no record of the wire format
IsJunk(l) ==
    \/ l.raw \in {"empty", "blank", "garbage"}
    \/ l.raw = "json" /\ l.type \notin LogTypes
    \/ l.raw = "json" /\ l.type = "message" /\ ~l.has_message

IsMessage(l) == l.raw = "json" /\ l.type = "message" /\ l.has_message

\* C5: an empty or malformed line is skipped: nothing is raised, the stream
\* goes on reading the same connection, last_id and attempt_number keep
\* their values, nothing is yielded; and a valid message record read after
\* it on the same connection is yielded.
C5_BadLineSkipped ==
    [][/\ (LineRead /\ IsJunk(line')) =>
            /\ s_pc' = "reading"
            /\ s_result' = "none"
            /\ last_id' = last_id
            /\ attempt_number' = attempt_number
            /\ opened' = opened
            /\ yielded' = yielded
       /\ (LineRead /\ skipped /\ IsMessage(line')) =>
            /\ yielded' = Append(yielded, LogLine("message", line'.id))
            /\ s_pc' = "reading"]_vars

\* a message was yielded after a skipped line of the same connection
C5_Witness ==
    /\ skipped
    /\ IsMessage(line)
    /\ Len(yielded) > 0
    /\ yielded[Len(yielded)] = LogLine("message", line.id)

\* C6: heartbeat and timeout records are never yielded; while no connection
\* has failed the yielded records are the received messages in arrival
\* order, and when the call returns they are followed by exactly one
\* terminal record.
C6_MessagesThenOneTerminal ==
    /\ \A i \in DOMAIN yielded : yielded[i].type \in {"message"} \cup TerminalTypes
    /\ (attempt_number = 0 /\ s_pc \in {"connect", "reading"}) => yielded = received
    /\ (attempt_number = 0 /\ s_pc = "returned") =>
         /\ Len(yielded) = Len(received) + 1
         /\ SubSeq(yielded, 1, Len(received)) = received
         /\ yielded[Len(yielded)].type \in TerminalTypes
         /\ \A i \in DOMAIN received : received[i].type = "message"

\* two messages, then complete: three records and the generator is exhausted
C6_Witness ==
    /\ s_pc = "returned"
    /\ attempt_number = 0
    /\ yielded = <<LogLine("message", 1), LogLine("message", 2), LogLine("complete", 3)>>

\* C8: when every connection attempt raised a connection error, the third
\* one ends the call with TooManyRetriesError: three connections were
\* opened, never a fourth, and no other error is raised.
C8_ThreeConnectionErrors ==
    /\ (all_refused /\ opened >= 3) =>
         (s_pc = "raised" /\ s_result = "TooManyRetriesError" /\ opened = 3)
    /\ (all_refused /\ s_pc = "raised") =>
         (s_result = "TooManyRetriesError" /\ opened = 3)

\* three connection errors in a row
C8_Witness ==
    /\ all_refused
    /\ opened = 3
    /\ s_pc = "raised"
    /\ s_result = "TooManyRetriesError"

\* the exception is one attempt does not treat as transient
IsFatal(exc) == exc # NoExc /\ ~IsTransient(exc)

\* what gets out of attempt for a fatal exception: no backoff was slept, an
\* HTTP status error has become a StreamLogError with that status code, any
\* other exception is raised as it is
FatalOutcome(exc, raised, code, slept) ==
    /\ slept = 0
    /\ raised # "none"
    /\ exc.cls = "HTTPStatusError" => (raised = "StreamLogError" /\ code = exc.status)
    /\ exc.cls # "HTTPStatusError" => raised = exc.cls

\* C11: a failure that is neither a network error nor an HTTP status >= 500
\* is never retried: attempt lets it out at once without a backoff sleep, an
\* HTTP status below 500 as a StreamLogError with that status code; the call
\* of poll_deployment_status, stream_build_logs or stream_app_logs in which
\* it happens has raised, sleeps nothing and issues no further request.
C11_FatalNeverRetried ==
    /\ [](/\ (a_pc = "exited" /\ IsFatal(a_exc)) =>
                FatalOutcome(a_exc, a_raised, a_status_code, a_slept)
          /\ IsFatal(poll_exc) =>
                (poll_pc = "raised" /\ FatalOutcome(poll_exc, poll_result, poll_status_code, 0))
          /\ IsFatal(s_exc) =>
                (s_pc = "raised" /\ FatalOutcome(s_exc, s_result, s_status_code, s_backoff))
          /\ IsFatal(app_exc) =>
                (app_pc = "raised" /\ FatalOutcome(app_exc, app_result, app_status_code, app_backoff)))
    /\ [][/\ (poll_pc = "request" /\ IsFatal(poll_exc')) =>
                \E d \in NetDelays(CLIENT_TIMEOUT) : now' = Advance(now, d)
          /\ poll_pc = "raised" => (poll_pc' = "raised" /\ poll_requests' = poll_requests)
          /\ s_pc = "raised" => (s_pc' = "raised" /\ opened' = opened)
          /\ app_pc = "raised" => (app_pc' = "raised" /\ app_opened' = app_opened)]_vars

\* the retry of stream_build_logs after a transient failure was answered 404
C11_Witness ==
    /\ s_pc = "raised"
    /\ s_exc = HTTPStatusError(404)
    /\ s_result = "StreamLogError"
    /\ s_status_code = 404
    /\ attempt_number = 1
    /\ opened = 2

\* C12: stream_build_logs stays within its budget: it is about to open a
\* connection only while no more than 5 minutes have elapsed since the call
\* started (past the budget it raises TimeoutError instead of reconnecting).
C12_EndsWithinBudget ==
    s_pc = "connect" => now - wrapper_start <= Seconds(300)

\* the step reads a line that parses as a timeout record
TimeoutRecordRead == LineRead /\ ParseLogLine(line').type = "timeout"

\* C17: a reconnect caused by the connection closing without a terminal
\* record waits the fixed 0.5 s in addition to the backoff of the failed
\* attempt before the next connection is opened.
C17_CloseReconnectWaitsFixedDelay ==
    (s_pc = "attempt" /\ closed) =>
        /\ s_pause = Seconds(1) \div 2
        /\ s_backoff = Seconds(ExpectedBackoffSeconds(attempt_number - 1))

\* C17, amended: a reconnect caused by the connection closing without a
\* terminal record waits the backoff of the failed attempt and nothing more;
\* the fixed 0.5 s is waited before the reconnect a timeout record causes,
\* and that reconnect waits no backoff.
C17_FixedDelayAfterTimeoutOnly ==
    /\ (s_pc = "attempt" /\ closed) =>
         /\ s_pause = 0
         /\ s_backoff = Seconds(ExpectedBackoffSeconds(attempt_number - 1))
    /\ (s_pc = "connect" /\ conn_cause = "timeout") =>
         /\ s_pause = Seconds(1) \div 2
         /\ s_backoff = 0

\* the second attempt's connection closed after records had been yielded
C17_Witness ==
    /\ s_pc = "attempt"
    /\ closed
    /\ attempt_number = 2
    /\ Len(yielded) > 0

\* C18: a timeout record never consumes an attempt: the step that reads one
\* goes on to reconnect with attempt_number unchanged, raises nothing and
\* sleeps no backoff (only the fixed half second); TooManyRetriesError is
\* raised only by a transient failure of the last attempt.
C18_TimeoutKeepsAttempt ==
    /\ [][TimeoutRecordRead =>
            /\ s_pc' = "connect"
            /\ attempt_number' = attempt_number
            /\ s_result' = "none"
            /\ s_backoff' = 0
            /\ s_pause' = Seconds(1) \div 2
            /\ \E d \in LineDelays : now' = Advance(now, d + Seconds(1) \div 2)]_vars
    /\ [](s_result = "TooManyRetriesError" =>
            /\ IsTransient(s_exc)
            /\ attempt_number = STREAM_LOGS_MAX_RETRIES - 1)

\* three reconnects after timeout records, all within the first attempt
C18_Witness ==
    /\ s_pc = "reading"
    /\ conn_cause = "timeout"
    /\ attempt_number = 0
    /\ opened >= 4

\* the operation was issued in this run
Issued(o) == \E i \in DOMAIN requests : requests[i].op = o

\* how many times the operation was issued in this run
TimesIssued(o) == Cardinality({i \in DOMAIN requests : requests[i].op = o})

\* the errors of a budget that ran out, and the fatal stream error
BudgetOrStreamErrors == {"TooManyRetriesError", "TimeoutError", "StreamLogError"}

C14_AppNotFound ==
    app_answer = HTTPStatusError(404) =>
        /\ d_pc = "done"
        /\ requests = <<Request("get_app", FALSE)>>
        /\ d_message = "app_not_found"
        /\ d_exit = "Exit1"

\* the lookup of an app id given on the command line answered 404
C14_Witness ==
    /\ app_answer = HTTPStatusError(404)
    /\ provided_app_id
    /\ d_pc = "done"

\* the order of the remote operations of a deploy run
DeployOrder ==
    <<"get_app", "create_deployment", "upload", "transfer", "upload_complete",
      "build_logs", "deployment_status">>

IsDeployStep(r) == r.op # "upload_cancelled"

\* C15: the remote operations of a run are issued in the order app lookup,
\* create deployment, upload target, archive transfer, upload-complete,
\* build-log stream, status poll; each one only after the one before it
\* succeeded, and the status poll only after the stream yielded complete.
C15_RemoteOrder ==
    LET steps == SelectSeq(requests, IsDeployStep) IN
    /\ Len(steps) <= Len(DeployOrder)
    /\ \A i \in DOMAIN steps : steps[i].op = DeployOrder[i]
    /\ \A i \in 1..(Len(steps) - 1) : steps[i].ok
    /\ Issued("deployment_status") => (d_log = "complete" /\ build_complete)

\* a run that went through all seven operations
C15_Witness ==
    /\ d_pc = "done"
    /\ Len(requests) = 7
    /\ streamed = 3
    /\ final_status = "success"

\* C16: whenever streaming or polling ends with TooManyRetriesError,
\* TimeoutError or StreamLogError, a message is shown and the run ends with
\* a non-zero exit code.
C16_StreamOrPollErrorExits ==
    /\ d_stream_error \in BudgetOrStreamErrors =>
         (d_pc = "done" /\ d_message # "none" /\ d_exit \notin {"none", "ok"})
    /\ d_poll_error \in BudgetOrStreamErrors =>
         (d_pc = "done" /\ d_message # "none" /\ d_exit \notin {"none", "ok"})

\* C16, amended: such an error of stream_build_logs shows "Build log
\* streaming failed" and ends the run by typer.Exit(1); such an error of
\* poll_deployment_status shows "Could not confirm deployment status" and
\* the run completes normally.
C16_StreamErrorExitsPollErrorWarns ==
    /\ d_stream_error \in BudgetOrStreamErrors =>
         (d_pc = "done" /\ d_message = "stream_failed" /\ d_exit = "Exit1")
    /\ d_poll_error \in BudgetOrStreamErrors =>
         (d_pc = "done" /\ d_message = "unconfirmed" /\ d_exit = "ok")

\* the build completed and the status poll ran out of retries
C16_Witness ==
    /\ d_poll_error = "TooManyRetriesError"
    /\ d_log = "complete"
    /\ d_pc = "done"

\* C19: the status poll_deployment_status returned lies in exactly one of
\* Successful and Failed; _verify_deployment completes normally for the
\* first and ends the run by typer.Exit(1) for the second.
C19_StatusPartition ==
    LET Successful == {"success", "verifying_skipped"}
        Failed == {"failed", "verifying_failed", "deploying_failed",
                   "building_image_failed", "extracting_failed"}
    IN
    final_status # "none" =>
        /\ (final_status \in Successful) # (final_status \in Failed)
        /\ d_pc = "done"
        /\ final_status \in Successful => (d_exit = "ok" /\ d_message = "ready")
        /\ final_status \in Failed => (d_exit = "Exit1" /\ d_message = "deploy_failed")

\* the poll returned a failed status
C19_Witness ==
    /\ final_status = "extracting_failed"
    /\ d_exit = "Exit1"

\* C20: a failed record ends the run by typer.Exit(1) without a status
\* poll; _verify_deployment is reached or its poll issued if and only if the
\* last record yielded is complete.
C20_FailedRecordExits ==
    /\ d_log = "failed" =>
         (d_pc = "done" /\ d_exit = "Exit1" /\ ~Issued("deployment_status"))
    /\ (d_pc = "polling" \/ Issued("deployment_status")) <=> d_log = "complete"

\* two messages, then failed
C20_Witness ==
    /\ d_log = "failed"
    /\ streamed = 3
    /\ d_pc = "done"

(***************************************************************************)
(* C21: when archive fails, the run is over at once, with the exception of *)
(* archive, and it has issued none of the create-deployment request, the   *)
(* upload-target request, the archive transfer, the upload-complete notice *)
(* and the upload-cancelled notice (the app lookup came before).           *)
(***************************************************************************)
UploadOps == {"create_deployment", "upload", "transfer", "upload_complete", "upload_cancelled"}

C21_ArchiveFailureAborts ==
    archived = "failed" =>
        /\ d_pc = "done"
        /\ d_exit = "OSError"
        /\ \A o \in UploadOps : ~Issued(o)

\* archive failed after a successful app lookup
C21_Witness ==
    /\ archived = "failed"
    /\ d_pc = "done"
    /\ requests = <<Request("get_app", TRUE)>>

(***************************************************************************)
(* C22: with skip_wait, a run never opens the build-log stream nor polls   *)
(* the status, and a run that is not interrupted and whose upload-complete *)
(* notice succeeded ends right there: normally, the dashboard URL being    *)
(* the last thing printed and the notice the last request.                 *)
(***************************************************************************)
C22_SkipWaitStopsAfterUpload ==
    skip_wait =>
        /\ ~Issued("build_logs")
        /\ ~Issued("deployment_status")
        /\ d_pc \notin {"streaming", "polling"}
        /\ (d_pc = "done" /\ interrupted = "none"
              /\ Request("upload_complete", TRUE) \in {requests[i] : i \in DOMAIN requests})
           => /\ d_exit = "ok"
              /\ d_message = "dashboard"
              /\ requests[Len(requests)] = Request("upload_complete", TRUE)

\* a skip_wait run completed after its upload
C22_Witness ==
    /\ skip_wait
    /\ d_pc = "done"
    /\ d_exit = "ok"
    /\ d_message = "dashboard"
    /\ requests[Len(requests)] = Request("upload_complete", TRUE)

(***************************************************************************)
(* C25: the upload-cancelled notice is never sent after an upload-complete *)
(* notice that succeeded.                                                  *)
(***************************************************************************)
C25_NoCancelAfterUploadComplete ==
    \A i, j \in DOMAIN requests :
        (requests[i] = Request("upload_complete", TRUE) /\ i < j)
            => requests[j].op # "upload_cancelled"

(***************************************************************************)
(* C29: when the upload-target request, the archive transfer or the        *)
(* upload-complete notice raises an httpx.HTTPError, the run is over with  *)
(* exit code 1, that request being its last: no upload-cancelled notice,   *)
(* no build-log request and no status request is issued.                   *)
(***************************************************************************)
UploadRequests == {"upload", "transfer", "upload_complete"}

UploadFailed ==
    /\ upload_error.cls \in HTTPErrors
    /\ requests # <<>>
    /\ requests[Len(requests)].op \in UploadRequests

C29_FailedUploadExits ==
    (upload_error.cls \in HTTPErrors
       /\ \E i \in DOMAIN requests : requests[i].op \in UploadRequests)
    => /\ d_pc = "done"
       /\ d_exit = "Exit1"
       /\ requests[Len(requests)].op \in UploadRequests
       /\ ~requests[Len(requests)].ok
       /\ ~Issued("upload_cancelled")
       /\ ~Issued("build_logs")
       /\ ~Issued("deployment_status")

\* the archive transfer was refused
C29_Witness ==
    /\ UploadFailed
    /\ upload_error = HTTPStatusError(403)
    /\ requests[Len(requests)] = Request("transfer", FALSE)
    /\ d_exit = "Exit1"

(***************************************************************************)
(* C30: no two records of accessories_example_db have the same id.         *)
(***************************************************************************)
C30_IdsUnique ==
    \A i, j \in DOMAIN accessories_example_db :
        accessories_example_db[i].id = accessories_example_db[j].id => i = j

(***************************************************************************)
(* C23: in stream_app_logs, reading a malformed line (no JSON, JSON that   *)
(* is no object, or an object that fails the validation of AppLogEntry)    *)
(* raises nothing and yields nothing: the loop goes on to the next line.   *)
(***************************************************************************)
AppLineRead == app_pc = "reading" /\ app_lines' = app_lines + 1

IsMalformed(l) ==
    \/ l.raw \in {"garbage", "value"}
    \/ l.raw = "object" /\ l.type = "log" /\ ~l.valid

C23_MalformedSkipped ==
    [][(AppLineRead /\ IsMalformed(app_line'))
         => (app_pc' = "reading" /\ app_yielded' = app_yielded)]_vars

(***************************************************************************)
(* C24: in stream_app_logs, a heartbeat record is not yielded and the loop *)
(* goes on; an error record ends the call with StreamLogError carrying the *)
(* record's message ("Unknown error" when it has none), without status     *)
(* code, without a backoff sleep and without yielding; after the call      *)
(* raised, no connection is opened and nothing is yielded.                 *)
(***************************************************************************)
C24_HeartbeatSkippedErrorFatal ==
    [][/\ (AppLineRead /\ app_line'.raw = "object" /\ app_line'.type = "heartbeat")
            => (app_pc' = "reading" /\ app_yielded' = app_yielded)
       /\ (AppLineRead /\ app_line'.raw = "object" /\ app_line'.type = "error")
            => /\ app_pc' = "raised"
               /\ app_result' = "StreamLogError"
               /\ app_message' = ErrorMessage(app_line')
               /\ app_status_code' = 0
               /\ app_backoff' = 0
               /\ app_yielded' = app_yielded
               /\ app_opened' = app_opened
               /\ app_attempt' = app_attempt
       /\ app_pc = "raised" => UNCHANGED <<app_pc, app_opened, app_yielded, app_backoff>>]_vars

\* an error record with a message ended a call that had yielded an entry,
\* in its second attempt
C24_Witness ==
    /\ app_pc = "raised"
    /\ app_result = "StreamLogError"
    /\ app_line = AppLine("object", "error", TRUE, FALSE)
    /\ app_message = "message"
    /\ app_yielded # <<>>
    /\ app_attempt = 1

(***************************************************************************)
(* C26: in one call of stream_build_logs the attempt number only grows and *)
(* stays below 3, records that are yielded leave it alone, and a           *)
(* connection that closes without a terminal record starts the next        *)
(* attempt while the number is below 2 and raises TooManyRetriesError when *)
(* it is 2, whatever was yielded before.                                   *)
(***************************************************************************)
ConnectionClosed == s_pc = "reading" /\ closed'

C26_AttemptsCountedOverWholeCall ==
    [][/\ s_pc # "idle" => attempt_number' >= attempt_number
       /\ attempt_number' < STREAM_LOGS_MAX_RETRIES
       /\ yielded' # yielded => attempt_number' = attempt_number
       /\ (ConnectionClosed /\ attempt_number < STREAM_LOGS_MAX_RETRIES - 1)
            => (s_pc' = "attempt" /\ attempt_number' = attempt_number + 1)
       /\ (ConnectionClosed /\ attempt_number = STREAM_LOGS_MAX_RETRIES - 1)
            => (s_pc' = "raised" /\ s_result' = "TooManyRetriesError")]_vars

\* the third close ended the call, records having been yielded both before
\* the last request and on its connection
C26_Witness ==
    /\ s_pc = "raised"
    /\ s_result = "TooManyRetriesError"
    /\ closed
    /\ attempt_number = STREAM_LOGS_MAX_RETRIES - 1
    /\ req_mark >= 1
    /\ Len(yielded) > req_mark
    /\ \E i \in DOMAIN yielded : i > req_mark /\ yielded[i].type = "message"

(***************************************************************************)
(* C27: every call of poll_deployment_status ends: it returns a terminal   *)
(* status or raises TimeoutError, TooManyRetriesError or an error that is  *)
(* not retried (StreamLogError for a status below 500, ValueError for an   *)
(* unknown status value).  On the way, a request is issued only while at   *)
(* most 120 seconds have passed since the call began, every iteration that *)
(* does not end the call takes at least 1 second, and so (as far as the    *)
(* model counts requests) the k-th request is not issued before k - 1      *)
(* seconds have passed: at most 121 requests fit into the budget.          *)
(***************************************************************************)
PollEnded == poll_pc \in {"returned", "raised"}

PollRaised == {"TimeoutError", "TooManyRetriesError", "StreamLogError", "ValueError"}

C27_PollTerminates ==
    /\ [][/\ (poll_pc = "request" /\ poll_pc' = "loop") => now' - now >= Seconds(1)
          /\ (poll_pc = "loop" /\ poll_pc' = "request") => now - poll_start <= POLL_TIMEOUT
          /\ (poll_pc' = "loop" /\ poll_requests' < MaxCount)
               => now' - poll_start' >= Seconds(poll_requests')
          /\ poll_pc' = "returned" => poll_result' \in TERMINAL_STATUSES
          /\ poll_pc' = "raised" => poll_result' \in PollRaised
          /\ PollEnded => UNCHANGED poll_requests]_vars
    /\ <>PollEnded

\* a call that saw pending statuses and transient failures, more requests
\* than the model counts, ran out of its budget
C27_Witness ==
    /\ poll_pc = "raised"
    /\ poll_result = "TimeoutError"
    /\ poll_requests = MaxCount
    /\ status \in DeploymentStatus \ TERMINAL_STATUSES
    /\ poll_exc # NoExc

(***************************************************************************)
(* C28: the attempt number given to attempt is at most 2 in                *)
(* stream_build_logs and stream_app_logs and at most 4 in                  *)
(* poll_deployment_status, so a backoff sleep is at most 4 seconds in the  *)
(* streams and 16 seconds in the poll, below the cap of 30 seconds; and    *)
(* the failure that uses up the retries is followed by its backoff sleep   *)
(* (4 and 16 seconds) before TooManyRetriesError is raised.                *)
(***************************************************************************)
C28_BackoffBelowCap ==
    /\ attempt_number <= 2
    /\ app_attempt <= 2
    /\ poll_pc = "request" => error_count <= 4
    /\ poll_backoff[1] <= 4
    /\ s_backoff <= Seconds(4)
    /\ app_backoff <= Seconds(4)
    /\ poll_backoff[2] <= Seconds(16)
    /\ (s_pc = "raised" /\ s_result = "TooManyRetriesError")
         => (attempt_number = 2 /\ s_backoff = Seconds(4))
    /\ (app_pc = "raised" /\ app_result = "TooManyRetriesError")
         => (app_attempt = 2 /\ app_backoff = Seconds(4))
    /\ (poll_pc = "raised" /\ poll_result = "TooManyRetriesError")
         => poll_backoff = <<4, Seconds(16)>>

\* the fifth failure in a row of a poll: 16 seconds slept, then the error
C28_Witness ==
    /\ poll_pc = "raised"
    /\ poll_result = "TooManyRetriesError"
    /\ poll_backoff = <<4, Seconds(16)>>
    /\ now >= Seconds(1 + 2 + 4 + 8 + 16)

====
